---- MODULE Spec2Model ----
(***************************************************************************)
(* Model of src/src/run_static_analysis.py: the aggregation of cppcheck    *)
(* and clang-tidy output into one pull-request comment.                    *)
(*                                                                         *)
(* Python strings are TLA+ strings (Len, \o and SubSeq act on them as in    *)
(* Python), so lengths, equality and concatenation are those of the code.  *)
(* The helper module sa_utils is imported by the program but is not part   *)
(* of src/: the definitions that stand for it follow spec.md and say so.   *)
(***************************************************************************)
EXTENDS Integers, Sequences, FiniteSets, TLC

\* --------------------------------------------------------------- bounds

\* Lines read from the two tool outputs, both passes together.
MaxLines == 4

\* ------------------------------------------------ Python string built-ins

\* str.startswith
StartsWith(s, p) == Len(s) >= Len(p) /\ SubSeq(s, 1, Len(p)) = p

\* the character of s at 1-based position i
Char(s, i) == SubSeq(s, i, i)

\* str.index(c) for a one-character c, 1-based; 0 where Python raises ValueError
Index(s, c) ==
    IF \E i \in 1..Len(s) : Char(s, i) = c
    THEN CHOOSE i \in 1..Len(s) : Char(s, i) = c /\ \A j \in 1..(i - 1) : Char(s, j) # c
    ELSE 0

\* sub in s
Contains(s, sub) ==
    \E i \in 1..(Len(s) - Len(sub) + 1) : SubSeq(s, i, i + Len(sub) - 1) = sub

\* str.endswith
EndsWith(s, p) == Len(s) >= Len(p) /\ SubSeq(s, Len(s) - Len(p) + 1, Len(s)) = p

\* str.find(sub), 1-based; 0 where sub does not occur
Find(s, sub) ==
    IF Contains(s, sub)
    THEN CHOOSE i \in 1..(Len(s) - Len(sub) + 1) :
            /\ SubSeq(s, i, i + Len(sub) - 1) = sub
            /\ \A j \in 1..(i - 1) : SubSeq(s, j, j + Len(sub) - 1) # sub
    ELSE 0

\* str.replace(old, ""), every occurrence, left to right
RECURSIVE Remove(_, _)
RemoveAt(s, old, i) ==
    IF i = 0 THEN s
    ELSE SubSeq(s, 1, i - 1) \o Remove(SubSeq(s, i + Len(old), Len(s)), old)

Remove(s, old) == IF Len(old) = 0 THEN s ELSE RemoveAt(s, old, Find(s, old))

\* str.lstrip(c)
RECURSIVE LStrip(_, _)
LStrip(s, c) ==
    IF Len(s) > 0 /\ Char(s, 1) = c THEN LStrip(SubSeq(s, 2, Len(s)), c) ELSE s

\* int(s) for the line numbers the tool outputs carry
MaxLineNo == 9
StrToInt(s) == CHOOSE n \in 0..MaxLineNo : ToString(n) = s

\* sep.join(list)
RECURSIVE Join(_, _)
Join(list, sep) ==
    IF Len(list) = 0 THEN ""
    ELSE IF Len(list) = 1 THEN list[1]
    ELSE list[1] \o sep \o Join(Tail(list), sep)

\* "".join(list)
Concat(list) == Join(list, "")

\* --------------------------------------------------------- configuration

\* sa_utils.WORK_DIR, the prefix of the tools' diagnostic lines
WORK_DIR == "/w"
\* sa_utils.TARGET_REPO_NAME, the repository that receives the comment
TARGET_REPO_NAME == "o/r"
\* the value INPUT_PR_REPO gives REPO_NAME when the code is a fork
FORK_REPO_NAME == "f/r"
\* the commit the permalinks point at
SHA == "abc"
\* sa_utils.COMMENT_TITLE
COMMENT_TITLE == "Static analysis result"
\* sa_utils.MAX_CHAR_COUNT_REACHED, the fixed truncation notice
MAX_CHAR_COUNT_REACHED == "!Maximum character count per GitHub comment has been reached!"
\* sa_utils.COMMENT_MAX_SIZE, the budget, scaled to the short lines of ToolLines
COMMENT_MAX_SIZE == 150
\* the directory is_excluded_dir excludes
EXCLUDE_DIR == "build"
\* the identity create_or_edit_comment looks for
BOT_LOGIN == "github-actions[bot]"

\* The checked-out sources: path -> the file's lines, as readlines() gives them.
\* a.cc:1 opens a parenthesis that a.cc:2 closes; a.cc:3 and a.cc:4 are balanced
\* one-line statements; m.cc is named by a diagnostic but cannot be opened.
FileSystem == [p \in {"a.cc"} |-> << "f(1,\n", "2);\n", "g();\n", "h();\n" >>]

\* The lines a tool output can hold: issues of a.cc (the third one long enough to
\* use up most of the budget by itself), a note, an issue of the missing m.cc, an
\* issue in the excluded directory and a line without the prefix.
ToolLines == {
    "/w/a.cc:1:1: error: E1\n",
    "/w/a.cc:3:1: error: E2\n",
    "/w/a.cc:4:1: style: E3 the scope of the variable 'result' can be reduced; the scope of the variable 'status' can be reduced as well\n",
    "/w/a.cc:1:2: note: N1\n",
    "/w/m.cc:1:1: error: E4\n",
    "/w/build/b.cc:1:1: error: E5\n",
    "a.cc:1:1: error: E6\n" }

\* The changed-files mappings: path -> set of <<first, last>> intervals.
\* NoChanges is the empty dict() of console mode and of ONLY_PR_CHANGES off.
NoChanges == [p \in {} |-> {}]
PrChanges == [p \in {"a.cc", "m.cc"} |-> IF p = "a.cc" THEN {<<1, 3>>} ELSE {<<1, 1>>}]

\* ------------------------------------------ sa_utils, modelled from spec.md

\* open brackets minus closing brackets of one source line
RECURSIVE Depth(_)
Depth(s) ==
    IF Len(s) = 0 THEN 0
    ELSE (IF Char(s, 1) \in {"(", "[", "{"} THEN 1
          ELSE IF Char(s, 1) \in {")", "]", "}"} THEN -1 ELSE 0)
         + Depth(SubSeq(s, 2, Len(s)))

\* advance from line k until the brackets opened so far are balanced, or end of file
RECURSIVE AdvanceLineEnd(_, _, _)
AdvanceLineEnd(lines, k, open) ==
    IF open + Depth(lines[k]) <= 0 \/ k = Len(lines) THEN k
    ELSE AdvanceLineEnd(lines, k + 1, open + Depth(lines[k]))

\* utils.get_file_line_end (spec.md 4.2): lineEnd = lineStart for a balanced statement
\* and for a file that cannot be opened
get_file_line_end(file_path, file_line_start) ==
    IF file_path \notin DOMAIN FileSystem THEN file_line_start
    ELSE IF file_line_start > Len(FileSystem[file_path]) THEN file_line_start
    ELSE AdvanceLineEnd(FileSystem[file_path], file_line_start, 0)

\* utils.is_excluded_dir (spec.md 4.4): the line lies in an excluded directory
is_excluded_dir(line) == StartsWith(line, WORK_DIR \o "/" \o EXCLUDE_DIR \o "/")

\* utils.is_part_of_pr_changes (spec.md 4.3)
is_part_of_pr_changes(file_path, line_no, files_changed) ==
    \/ DOMAIN files_changed = {}
    \/ /\ file_path \in DOMAIN files_changed
       /\ \E iv \in files_changed[file_path] : iv[1] <= line_no /\ line_no <= iv[2]

\* utils.generate_description (spec.md 4.4): the description is inlined as it is,
\* a note is appended raw, the pending entry is left alone
generate_description(is_note, prev_was_note, file_line_start, issue_description, pending) ==
    [per_issue_string |-> pending, description |-> issue_description]

\* utils.check_for_char_limit (spec.md 4.4, budget check): false when the new total
\* would reach or exceed the maximum
check_for_char_limit(current_length, incoming_line) ==
    current_length + Len(incoming_line) < COMMENT_MAX_SIZE

\* ------------------------------------------------------------------ state

VARIABLES
    output_to_console,      \* the -o flag
    REPO_NAME,              \* module global: the repository the diagnostics come from
    files_changed_in_pr,    \* the changed-files mapping of this invocation
    pc,                     \* where the invocation is
    list_of_issues,         \* the running pass's finalized entries
    per_issue_string,       \* the running pass's pending entry
    was_note,               \* the running pass's note flag
    CURRENT_COMMENT_LENGTH, \* utils.CURRENT_COMMENT_LENGTH
    FILES_WITH_ISSUES,      \* utils.FILES_WITH_ISSUES, the file-content cache
    cppcheck,               \* what the cppcheck pass returned
    clang_tidy,             \* what the clang-tidy pass returned
    full_comment_body,      \* what prepare_comment_body returned
    pr_comments,            \* the pull request's comments after the transport call
    exit_status,            \* the status the process ended with, -1 while it runs
    printed,                \* what the process printed
    exception,              \* the uncaught exception that ended the process, if any
    tool_output,            \* history: the lines the running pass has read
    nread,                  \* history: lines read by both passes
    step,                   \* history: what the last loop iteration did
    exceeded,               \* history: the passes whose budget check failed
    cppcheck_content,       \* history: the lines the cppcheck pass read
    exclude,                \* get_files_to_check: the -exclude argument
    rglob,                  \* get_files_to_check: the resolved paths rglob yields
    nvisited,               \* get_files_to_check: the paths the loop has visited
    files_printed           \* get_files_to_check: the paths printed

vars == << output_to_console, REPO_NAME, files_changed_in_pr, pc, list_of_issues,
           per_issue_string, was_note, CURRENT_COMMENT_LENGTH, FILES_WITH_ISSUES,
           cppcheck, clang_tidy, full_comment_body, pr_comments, exit_status,
           printed, exception, tool_output, nread, step, exceeded,
           cppcheck_content, exclude, rglob, nvisited, files_printed >>

\* the state of get_files_to_check.py, which run_static_analysis.py leaves alone
files_vars == << exclude, rglob, nvisited, files_printed >>

\* ------------------------------------------------------------ extract_info

\* lines 37-44: the fields, once the path and the rest of the line are cut out
ExtractFields(file_path, file_line_start, issue_description) ==
    [ file_path |-> file_path,
      is_note |-> StartsWith(issue_description, "note:"),
      file_line_start |-> file_line_start,
      file_line_end |-> get_file_line_end(file_path, file_line_start),
      issue_description |-> issue_description ]

\* lines 34-41: rest is the line after the path's colon
ExtractRest(file_path, rest) ==
    ExtractFields(file_path,
                  StrToInt(SubSeq(rest, 1, Index(rest, ":") - 1)),
                  SubSeq(rest, Index(rest, " ") + 1, Len(rest)))

\* lines 30-34: cleaned is the line without the prefix and the leading slashes
ExtractPath(cleaned, file_path_end_idx) ==
    ExtractRest(SubSeq(cleaned, 1, file_path_end_idx - 1),
                SubSeq(cleaned, file_path_end_idx + 1, Len(cleaned)))

ExtractCleaned(cleaned) == ExtractPath(cleaned, Index(cleaned, ":"))

extract_info(line, prefix) == ExtractCleaned(LStrip(Remove(line, prefix), "/"))

\* --------------------------------------------------------- generate_output

\* list[a:b] of Python for 0 <= a, 0 <= b
Slice(list, a, b) == SubSeq(list, a + 1, IF b < Len(list) THEN b ELSE Len(list))

\* s[:-1]
DropLast(s) == SubSeq(s, 1, Len(s) - 1)

\* lines 76-80: the cache after the attempt to load file_path
LoadFile(file_path) ==
    IF file_path \in DOMAIN FILES_WITH_ISSUES THEN FILES_WITH_ISSUES
    ELSE IF file_path \in DOMAIN FileSystem
    THEN [p \in DOMAIN FILES_WITH_ISSUES \cup {file_path} |->
            IF p = file_path THEN FileSystem[p] ELSE FILES_WITH_ISSUES[p]]
    ELSE FILES_WITH_ISSUES

\* lines 76-80: what the attempt prints
LoadFileMessage(file_path) ==
    IF file_path \notin DOMAIN FILES_WITH_ISSUES /\ file_path \notin DOMAIN FileSystem
    THEN << "Error: The file '" \o file_path \o "' was not found." >>
    ELSE << >>

\* lines 90-101: the block of an issue of another repository. A TLA+ string cannot
\* hold a backquote: ^ stands for each backquote of the code's literals.
ExcerptBlock(modified_content, file_path, file_line_start, description) ==
    LET marked == [modified_content EXCEPT ![1] = DropLast(@) \o " <---- HERE\n"]
        file_content == Concat(marked)
        file_url == "https://github.com/" \o REPO_NAME \o "/blob/" \o SHA \o "/"
                    \o file_path \o "#L" \o ToString(file_line_start)
    IN  "\n\n------"
        \o "\n\n <b><i>Issue found in file</b></i> [" \o REPO_NAME \o "/" \o file_path
        \o "](" \o file_url \o ")\n"
        \o "^^^cpp\n"
        \o file_content
        \o "\n^^^ \n"
        \o description \o " <br>\n"

\* lines 104-107: the permalink of an issue of the target repository
Permalink(file_path, file_line_start, file_line_end, description) ==
    "\n\nhttps://github.com/" \o REPO_NAME \o "/blob/" \o SHA \o "/" \o file_path
    \o "#L" \o ToString(file_line_start) \o "-L" \o ToString(file_line_end)
    \o " " \o description \o " <br>\n"

\* generate_output: raised names the exception that leaves the function ("" when it
\* returns new_line); cache and messages are the cache and the prints it leaves behind
generate_output(is_note, file_path, file_line_start, file_line_end, description) ==
    IF is_note
    THEN [raised |-> "", new_line |-> description,
          cache |-> FILES_WITH_ISSUES, messages |-> << >>]
    ELSE IF TARGET_REPO_NAME = REPO_NAME
    THEN [raised |-> "",
          new_line |-> Permalink(file_path, file_line_start, file_line_end, description),
          cache |-> FILES_WITH_ISSUES, messages |-> << >>]
    ELSE LET cache == LoadFile(file_path)
             messages == LoadFileMessage(file_path)
         IN  IF file_path \notin DOMAIN cache
             THEN [raised |-> "KeyError", new_line |-> "",
                   cache |-> cache, messages |-> messages]
             ELSE LET modified_content ==
                          Slice(cache[file_path], file_line_start - 1, file_line_end - 1)
                  IN  IF Len(modified_content) = 0
                      THEN [raised |-> "IndexError", new_line |-> "",
                            cache |-> cache, messages |-> messages]
                      ELSE [raised |-> "",
                            new_line |-> ExcerptBlock(modified_content, file_path,
                                                      file_line_start, description),
                            cache |-> cache, messages |-> messages]

\* ------------------------------------------------------------ append_issue

\* append_issue with "=" for "+=" at line 120: a note replaces the pending entry
append_issue_NoteReplaces(is_note, pending, new_line, list) ==
    IF ~is_note
    THEN [pending |-> new_line,
          list |-> IF Len(pending) > 0 /\ (\A i \in 1..Len(list) : list[i] # pending)
                   THEN Append(list, pending) ELSE list]
    ELSE [pending |-> new_line, list |-> list]

\* append_issue without the test of is_note at line 115: a note finalizes the pending
\* entry as an issue does
append_issue_NoteFinalizes(is_note, pending, new_line, list) ==
    [pending |-> new_line,
     list |-> IF Len(pending) > 0 /\ (\A i \in 1..Len(list) : list[i] # pending)
              THEN Append(list, pending) ELSE list]

\* append_issue: pending is the returned per_issue_string, list is list_of_issues
\* after the call (the function appends to the caller's list)
append_issue(is_note, pending, new_line, list) ==
    IF ~is_note
    THEN [pending |-> new_line,
          list |-> IF Len(pending) > 0 /\ (\A i \in 1..Len(list) : list[i] # pending)
                   THEN Append(list, pending) ELSE list]
    ELSE [pending |-> pending \o new_line, list |-> list]

\* the flush without the membership test of line 192
FlushPending_NoDedup(pending, list) ==
    IF Len(pending) > 0 THEN Append(list, pending) ELSE list

\* lines 191-193: the pending entry is flushed at the end of the stream
FlushPending(pending, list) ==
    IF Len(pending) > 0 /\ (\A i \in 1..Len(list) : list[i] # pending)
    THEN Append(list, pending) ELSE list

\* lines 189 and 195-199: what create_comment_for_output returns; entries keeps the
\* list the string was joined from
Returned(list) == [comment |-> Join(list, "\n"), issues_found |-> Len(list), entries |-> list]

\* a pass that has not returned
NotReturned == [comment |-> "", issues_found |-> -1, entries |-> << >>]

\* ----------------------------------------------- create_comment_for_output

\* line 184 left out: the counter does not grow
CounterAfterAppend_Stale(current_length, new_line) == current_length

\* line 184 with "=" for "+=": the counter is the length of the last line
CounterAfterAppend_Assigns(current_length, new_line) == Len(new_line)

\* line 184: the counter after an accepted line
CounterAfterAppend(current_length, new_line) == current_length + Len(new_line)

\* line 189 after the flush of lines 192-193: the pending entry is returned too
BudgetReturn_Flushes(pending, list) ==
    [comment |-> Join(FlushPending(pending, list), "\n"),
     issues_found |-> Len(FlushPending(pending, list)),
     entries |-> FlushPending(pending, list)]

\* line 189: what the pass returns when the budget check fails
BudgetReturn(pending, list) == Returned(list)

\* The outcome of one iteration of the loop over tool_output (lines 149-189):
\* the locals and globals it leaves behind, and
\*   "skip"    the line is not folded (no prefix, excluded directory, Range Filter)
\*   "console" line 160: folded raw, console mode
\*   "append"  lines 181-184: rendered, within budget, folded
\*   "budget"  lines 187-189: the budget check failed, the pass returns
\*   "raise"   generate_output raised
Outcome(outcome, pending, list, note, length, cache, messages, new_line, raised) ==
    [outcome |-> outcome, pending |-> pending, list |-> list, note |-> note,
     length |-> length, cache |-> cache, messages |-> messages,
     new_line |-> new_line, raised |-> raised]

\* a skipped line that finalizes the pending entry, as an issue line does
Skipped_FlushesPending ==
    Outcome("skip", "", FlushPending(per_issue_string, list_of_issues), FALSE,
            CURRENT_COMMENT_LENGTH, FILES_WITH_ISSUES, << >>, "", "")

Skipped ==
    Outcome("skip", per_issue_string, list_of_issues, was_note, CURRENT_COMMENT_LENGTH,
            FILES_WITH_ISSUES, << >>, "", "")

\* lines 160-163: console mode folds the raw line
ConsoleFold(line, a) ==
    Outcome("console", a.pending, a.list, was_note, CURRENT_COMMENT_LENGTH,
            FILES_WITH_ISSUES, << >>, line, "")

\* lines 181-184: the line is within budget
Accepted(info, out, a) ==
    Outcome("append", a.pending, a.list, info.is_note,
            CounterAfterAppend(CURRENT_COMMENT_LENGTH, out.new_line),
            out.cache, out.messages, out.new_line, "")

\* lines 180-189, after generate_output
CheckLine(info, d, out) ==
    IF out.raised # ""
    THEN Outcome("raise", d.per_issue_string, list_of_issues, info.is_note,
                 CURRENT_COMMENT_LENGTH, out.cache, out.messages, "", out.raised)
    ELSE IF check_for_char_limit(CURRENT_COMMENT_LENGTH, out.new_line)
    THEN Accepted(info, out, append_issue(info.is_note, d.per_issue_string,
                                          out.new_line, list_of_issues))
    ELSE Outcome("budget", d.per_issue_string, list_of_issues, info.is_note,
                 COMMENT_MAX_SIZE, out.cache, out.messages, out.new_line, "")

\* lines 168-178
RenderLine(info, d) ==
    CheckLine(info, d, generate_output(info.is_note, info.file_path, info.file_line_start,
                                       info.file_line_end, d.description))

\* lines 158-189 with the test of line 165 ahead of the test of line 159: console
\* mode consults the Range Filter
FoldLine_FilterFirst(line, info) ==
    IF ~is_part_of_pr_changes(info.file_path, info.file_line_start, files_changed_in_pr)
    THEN Skipped
    ELSE IF output_to_console
    THEN ConsoleFold(line, append_issue(info.is_note, per_issue_string, line,
                                        list_of_issues))
    ELSE RenderLine(info, generate_description(info.is_note, was_note,
                                               info.file_line_start,
                                               info.issue_description, per_issue_string))

\* lines 158-189, after extract_info
FoldLine(line, info) ==
    IF output_to_console
    THEN ConsoleFold(line, append_issue(info.is_note, per_issue_string, line,
                                        list_of_issues))
    ELSE IF ~is_part_of_pr_changes(info.file_path, info.file_line_start,
                                   files_changed_in_pr)
    THEN Skipped
    ELSE RenderLine(info, generate_description(info.is_note, was_note,
                                               info.file_line_start,
                                               info.issue_description, per_issue_string))

\* lines 149-189, one iteration
LoopBody(line) ==
    IF StartsWith(line, WORK_DIR) /\ ~is_excluded_dir(line)
    THEN FoldLine(line, extract_info(line, WORK_DIR))
    ELSE Skipped

\* --------------------------------------------- read_files_and_parse_results

\* lines 286-294: what console mode prints once both passes have returned
ConsoleReport(cc, ct) ==
    IF output_to_console /\ (cc.issues_found # 0 \/ ct.issues_found # 0)
    THEN << "##[error] Issues found!\n" >>
         \o (IF cc.issues_found # 0
             THEN << "\\u001b[31mcppcheck results: " \o cc.comment >> ELSE << >>)
         \o (IF ct.issues_found # 0
             THEN << "\\u001b[31mclang-tidy results: " \o ct.comment >> ELSE << >>)
    ELSE << >>

\* a pass returns and the next one starts without lines 144-146: the locals of the
\* cppcheck pass are those of the clang-tidy pass
PassReturns_LocalsKept(result, messages) ==
    /\ list_of_issues' = result.entries
    /\ per_issue_string' = per_issue_string
    /\ was_note' = was_note
    /\ IF pc = "cppcheck"
       THEN /\ pc' = "clangtidy"
            /\ cppcheck' = result
            /\ clang_tidy' = clang_tidy
            /\ printed' = printed \o messages
       ELSE /\ pc' = "parsed"
            /\ clang_tidy' = result
            /\ cppcheck' = cppcheck
            /\ printed' = printed \o messages \o ConsoleReport(cppcheck, result)

\* lines 279-302: a pass returns result; the cppcheck pass is followed by the
\* clang-tidy pass, with fresh locals (lines 144-146) and the same globals
PassReturns(result, messages) ==
    /\ list_of_issues' = << >>
    /\ per_issue_string' = ""
    /\ was_note' = FALSE
    /\ IF pc = "cppcheck"
       THEN /\ pc' = "clangtidy"
            /\ cppcheck' = result
            /\ clang_tidy' = clang_tidy
            /\ printed' = printed \o messages
       ELSE /\ pc' = "parsed"
            /\ clang_tidy' = result
            /\ cppcheck' = cppcheck
            /\ printed' = printed \o messages \o ConsoleReport(cppcheck, result)

\* ------------------------------------------------------------------- Init

\* lines 142-146 and the module globals: the process before the first pass
ProcessStart ==
    /\ pc = "cppcheck"
    /\ list_of_issues = << >>
    /\ per_issue_string = ""
    /\ was_note = FALSE
    /\ CURRENT_COMMENT_LENGTH = 0
    /\ FILES_WITH_ISSUES = [p \in {} |-> << >>]
    /\ cppcheck = NotReturned
    /\ clang_tidy = NotReturned
    /\ full_comment_body = ""
    /\ pr_comments = << >>
    /\ exit_status = -1
    /\ printed = << >>
    /\ exception = ""
    /\ tool_output = << >>
    /\ nread = 0
    /\ step = [outcome |-> "start", line |-> "", new_line |-> ""]
    /\ exceeded = {}
    /\ cppcheck_content = << >>

\* get_files_to_check.py is not running
FilesIdle ==
    /\ exclude = ""
    /\ rglob = << >>
    /\ nvisited = 0
    /\ files_printed = << >>

\* Console mode never computes the changed files (lines 275-277); the repository of
\* the diagnostics is the target repository or, for a fork, INPUT_PR_REPO.
Init ==
    /\ output_to_console \in BOOLEAN
    /\ REPO_NAME \in {TARGET_REPO_NAME, FORK_REPO_NAME}
    /\ files_changed_in_pr \in (IF output_to_console THEN {NoChanges}
                                ELSE {NoChanges, PrChanges})
    /\ output_to_console => REPO_NAME = TARGET_REPO_NAME
    /\ ProcessStart
    /\ FilesIdle

\* ---------------------------------------------------------------- actions

\* The lines the running pass has read: tool_output keeps the stream of a pass that
\* has just returned until the next pass reads its first line.
CurrentStream == IF step.outcome \in {"budget", "end"} THEN << >> ELSE tool_output

\* One iteration of the loop of create_comment_for_output (lines 148-189), r being
\* what the iteration computes for line.
Iterate(line, r) ==
    /\ nread' = nread + 1
    /\ step' = [outcome |-> r.outcome, line |-> line, new_line |-> r.new_line]
    /\ tool_output' = Append(CurrentStream, line)
    /\ FILES_WITH_ISSUES' = r.cache
    /\ CURRENT_COMMENT_LENGTH' = r.length
    /\ exceeded' = IF r.outcome = "budget" THEN exceeded \cup {pc} ELSE exceeded
    /\ cppcheck_content' = IF pc = "cppcheck" THEN Append(cppcheck_content, line)
                                              ELSE cppcheck_content
    /\ UNCHANGED << output_to_console, REPO_NAME, files_changed_in_pr,
                    full_comment_body, pr_comments, files_vars >>
    /\ CASE r.outcome = "budget" ->
              /\ PassReturns(BudgetReturn(r.pending, r.list), r.messages)
              /\ UNCHANGED << exit_status, exception >>
         [] r.outcome = "raise" ->
              /\ pc' = "exit"
              /\ exit_status' = 1
              /\ exception' = r.raised
              /\ printed' = printed \o r.messages
              /\ per_issue_string' = r.pending
              /\ was_note' = r.note
              /\ UNCHANGED << list_of_issues, cppcheck, clang_tidy >>
         [] OTHER ->
              /\ per_issue_string' = r.pending
              /\ list_of_issues' = r.list
              /\ was_note' = r.note
              /\ printed' = printed \o r.messages
              /\ UNCHANGED << pc, cppcheck, clang_tidy, exit_status, exception >>

ProcessLine ==
    /\ pc \in {"cppcheck", "clangtidy"}
    /\ nread < MaxLines
    /\ \E line \in ToolLines : Iterate(line, LoopBody(line))

\* The stream ends: the pending entry is flushed and the pass returns (lines 191-199).
EndOfStream ==
    /\ pc \in {"cppcheck", "clangtidy"}
    /\ PassReturns(Returned(FlushPending(per_issue_string, list_of_issues)), << >>)
    /\ step' = [outcome |-> "end", line |-> "", new_line |-> ""]
    /\ tool_output' = CurrentStream
    /\ UNCHANGED << output_to_console, REPO_NAME, files_changed_in_pr,
                    CURRENT_COMMENT_LENGTH, FILES_WITH_ISSUES, full_comment_body,
                    pr_comments, exit_status, exception, nread, exceeded,
                    cppcheck_content, files_vars >>

\* ---------------------------------------------------- prepare_comment_body

\* the label with ">= 1" for "> 1" at lines 334 and 344
SectionLabel_PluralFromOne(tool, issues_found) ==
    "<details> <summary> <b> :red_circle: " \o tool \o " found "
    \o ToString(issues_found) \o " " \o (IF issues_found >= 1 THEN "issues" ELSE "issue")
    \o "! Click here to see details. </b> </summary> <br>"

\* lines 333-336 and 343-346: the label of a tool's section
SectionLabel(tool, issues_found) ==
    "<details> <summary> <b> :red_circle: " \o tool \o " found "
    \o ToString(issues_found) \o " " \o (IF issues_found > 1 THEN "issues" ELSE "issue")
    \o "! Click here to see details. </b> </summary> <br>"

\* lines 322-325
NoIssuesBanner ==
    "## <p align=\"center\"><b> :white_check_mark:"
    \o COMMENT_TITLE \o " - no issues found! :white_check_mark: </b></p>"

\* line 350; ^ stands for each backquote
TruncationNotice == "\n^^^diff\n" \o MAX_CHAR_COUNT_REACHED \o "\n^^^"

\* lines 321-347: the banner, or the title and the tools' sections
CommentSections(cppcheck_comment, clang_tidy_comment, cppcheck_issues_found, clang_tidy_issues_found) ==
    IF cppcheck_issues_found = 0 /\ clang_tidy_issues_found = 0
    THEN NoIssuesBanner
    ELSE "## <p align=\"center\"><b> :zap: " \o COMMENT_TITLE \o " :zap: </b></p> \n\n"
         \o (IF Len(cppcheck_comment) > 0
             THEN SectionLabel("cppcheck", cppcheck_issues_found)
                  \o cppcheck_comment \o " </details>"
             ELSE "")
         \o "\n\n *** \n"
         \o (IF Len(clang_tidy_comment) > 0
             THEN SectionLabel("clang-tidy", clang_tidy_issues_found)
                  \o clang_tidy_comment \o " </details><br>\n"
             ELSE "")

\* lines 349-350: the notice follows whatever lines 321-347 produced
WithNotice(body) ==
    IF CURRENT_COMMENT_LENGTH = COMMENT_MAX_SIZE THEN body \o TruncationNotice ELSE body

\* prepare_comment_body with lines 349-350 inside the else branch of line 326
prepare_comment_body_NoticeInElse(cppcheck_comment, clang_tidy_comment, cppcheck_issues_found, clang_tidy_issues_found) ==
    IF cppcheck_issues_found = 0 /\ clang_tidy_issues_found = 0
    THEN NoIssuesBanner
    ELSE WithNotice(CommentSections(cppcheck_comment, clang_tidy_comment,
                                    cppcheck_issues_found, clang_tidy_issues_found))

\* prepare_comment_body with ">" for "==" at line 349: the notice is never appended
prepare_comment_body_NoNotice(cppcheck_comment, clang_tidy_comment, cppcheck_issues_found, clang_tidy_issues_found) ==
    CommentSections(cppcheck_comment, clang_tidy_comment,
                    cppcheck_issues_found, clang_tidy_issues_found)

prepare_comment_body(cppcheck_comment, clang_tidy_comment, cppcheck_issues_found, clang_tidy_issues_found) ==
    WithNotice(CommentSections(cppcheck_comment, clang_tidy_comment,
                               cppcheck_issues_found, clang_tidy_issues_found))

\* -------------------------------------------------- create_or_edit_comment

\* The comments the pull request can hold when the invocation fetches them.
PriorComments == {
    << >>,
    << [login |-> "alice", body |-> "Static analysis result looks wrong"] >>,
    << [login |-> BOT_LOGIN, body |-> "Coverage report"],
       [login |-> BOT_LOGIN, body |-> NoIssuesBanner] >> }

\* create_or_edit_comment whose search of lines 375-381 never matches
create_or_edit_comment_AlwaysCreates(comments, comment_body) ==
    Append(comments, [login |-> BOT_LOGIN, body |-> comment_body])

\* lines 372-386: edit the first comment of the automation identity that holds the
\* title, else create a comment
create_or_edit_comment(comments, comment_body) ==
    LET found == {i \in 1..Len(comments) :
                    comments[i].login = BOT_LOGIN /\ Contains(comments[i].body, COMMENT_TITLE)}
    IN  IF found # {}
        THEN LET first == CHOOSE i \in found : \A j \in found : i <= j
             IN  [comments EXCEPT ![first].body = comment_body]
        ELSE Append(comments, [login |-> BOT_LOGIN, body |-> comment_body])

\* ----------------------------------------------------------------- __main__

\* lines 398-404: comment mode prepares the body
PrepareBody ==
    /\ pc = "parsed"
    /\ ~output_to_console
    /\ full_comment_body' = prepare_comment_body(cppcheck.comment, clang_tidy.comment,
                                                 cppcheck.issues_found,
                                                 clang_tidy.issues_found)
    /\ pc' = "body"
    /\ UNCHANGED << output_to_console, REPO_NAME, files_changed_in_pr, list_of_issues,
                    per_issue_string, was_note, CURRENT_COMMENT_LENGTH, FILES_WITH_ISSUES,
                    cppcheck, clang_tidy, pr_comments, exit_status, printed, exception,
                    tool_output, nread, step, exceeded, cppcheck_content,
                    files_vars >>

\* line 405: the transport call
CreateOrEditComment ==
    /\ pc = "body"
    /\ \E prior \in PriorComments :
         pr_comments' = create_or_edit_comment(prior, full_comment_body)
    /\ pc' = "posted"
    /\ UNCHANGED << output_to_console, REPO_NAME, files_changed_in_pr, list_of_issues,
                    per_issue_string, was_note, CURRENT_COMMENT_LENGTH, FILES_WITH_ISSUES,
                    cppcheck, clang_tidy, full_comment_body, exit_status, printed,
                    exception, tool_output, nread, step, exceeded, cppcheck_content,
                    files_vars >>

\* The platform keeps the low 8 bits of the value handed to sys.exit; the width is
\* scaled to the streams of MaxLines lines, as COMMENT_MAX_SIZE is, so that a total
\* count can reach 2^StatusBits.
StatusBits == 2

\* line 407: sys.exit with the total count, of which the platform keeps the low bits
ExitStatus(total) == total % (2 ^ StatusBits)

Exit ==
    /\ \/ pc = "parsed" /\ output_to_console
       \/ pc = "posted"
    /\ exit_status' = ExitStatus(cppcheck.issues_found + clang_tidy.issues_found)
    /\ pc' = "exit"
    /\ UNCHANGED << output_to_console, REPO_NAME, files_changed_in_pr, list_of_issues,
                    per_issue_string, was_note, CURRENT_COMMENT_LENGTH, FILES_WITH_ISSUES,
                    cppcheck, clang_tidy, full_comment_body, pr_comments, printed,
                    exception, tool_output, nread, step, exceeded, cppcheck_content,
                    files_vars >>

Next == ProcessLine \/ EndOfStream \/ PrepareBody \/ CreateOrEditComment \/ Exit

Spec == Init /\ [][Next]_vars

\* ------------------------------------ create_comment_for_output by itself

\* create_comment_for_output (lines 125-199) called with any flag and any mapping of
\* changed files, twice as lines 279-284 do.
InitPass ==
    /\ output_to_console \in BOOLEAN
    /\ REPO_NAME \in {TARGET_REPO_NAME, FORK_REPO_NAME}
    /\ files_changed_in_pr \in {NoChanges, PrChanges}
    /\ ProcessStart
    /\ FilesIdle

NextPass == ProcessLine \/ EndOfStream

SpecPass == InitPass /\ [][NextPass]_vars

\* ---------------------------------------- invocations on one pull request

\* the comments that others leave on a pull request, at most
MaxOtherComments == 1

\* Comments that others leave on the pull request: a user quoting the title, and
\* another workflow of the automation identity.
OtherComments == {
    [login |-> "alice", body |-> "Static analysis result looks wrong"],
    [login |-> BOT_LOGIN, body |-> "Coverage report"] }

\* Somebody else comments on the pull request before the invocation fetches the
\* comments (line 372).
OtherCommentPosted ==
    /\ pc = "body"
    /\ Cardinality({i \in 1..Len(pr_comments) : pr_comments[i] \in OtherComments})
           < MaxOtherComments
    /\ \E c \in OtherComments : pr_comments' = Append(pr_comments, c)
    /\ UNCHANGED << output_to_console, REPO_NAME, files_changed_in_pr, pc, list_of_issues,
                    per_issue_string, was_note, CURRENT_COMMENT_LENGTH, FILES_WITH_ISSUES,
                    cppcheck, clang_tidy, full_comment_body, exit_status, printed,
                    exception, tool_output, nread, step, exceeded, cppcheck_content,
                    files_vars >>

\* line 405, on the comments the pull request holds
CreateOrEditOnPullRequest ==
    /\ pc = "body"
    /\ pr_comments' = create_or_edit_comment(pr_comments, full_comment_body)
    /\ pc' = "posted"
    /\ UNCHANGED << output_to_console, REPO_NAME, files_changed_in_pr, list_of_issues,
                    per_issue_string, was_note, CURRENT_COMMENT_LENGTH, FILES_WITH_ISSUES,
                    cppcheck, clang_tidy, full_comment_body, exit_status, printed,
                    exception, tool_output, nread, step, exceeded, cppcheck_content,
                    files_vars >>

\* The next comment-mode invocation on the pull request: a new process, whose module
\* globals and locals start afresh (lines 142-146); the pull request keeps its comments.
Reinvoke ==
    /\ pc = "exit"
    /\ ~output_to_console
    /\ nread < MaxLines
    /\ pc' = "cppcheck"
    /\ list_of_issues' = << >>
    /\ per_issue_string' = ""
    /\ was_note' = FALSE
    /\ CURRENT_COMMENT_LENGTH' = 0
    /\ FILES_WITH_ISSUES' = [p \in {} |-> << >>]
    /\ cppcheck' = NotReturned
    /\ clang_tidy' = NotReturned
    /\ full_comment_body' = ""
    /\ exit_status' = -1
    /\ printed' = << >>
    /\ exception' = ""
    /\ tool_output' = << >>
    /\ step' = [outcome |-> "start", line |-> "", new_line |-> ""]
    /\ exceeded' = {}
    /\ cppcheck_content' = << >>
    /\ UNCHANGED << output_to_console, REPO_NAME, files_changed_in_pr, pr_comments,
                    nread, files_vars >>

NextRuns ==
    \/ ProcessLine
    \/ EndOfStream
    \/ PrepareBody
    \/ OtherCommentPosted
    \/ CreateOrEditOnPullRequest
    \/ Exit
    \/ Reinvoke

SpecRuns == Init /\ [][NextRuns]_vars

\* ------------------------------------------------------ get_files_to_check

\* the -dir argument (line 8)
directory == "/w"

\* the values of the -exclude argument; "" is its default (line 5)
ExcludeArgs == {"", "/w/ext", "/w/lib/b"}

\* line 9
exclude_prefixes(exclude_arg) == << exclude_arg, directory \o "/build" >>

\* line 10
supported_extensions == << ".h", ".hpp", ".hcc", ".c", ".cc", ".cpp", ".cxx" >>

\* str.endswith and str.startswith with a tuple (line 14)
EndsWithAny(str, suffixes) == \E i \in 1..Len(suffixes) : EndsWith(str, suffixes[i])
StartsWithAny(str, prefixes) == \E i \in 1..Len(prefixes) : StartsWith(str, prefixes[i])

\* The resolved paths of the files under the directory whose names hold a dot, in
\* the order rglob yields them (lines 12-13); a tree holds any of them.
AllPaths == << "/w/a.cc", "/w/lib/b.hpp", "/w/build/c.cpp", "/w/ext/d.h",
               "/w/README.md", "/w/builder.cxx", "/w/lib/e.c" >>

RECURSIVE PathsOf(_, _)
PathsOf(present, n) ==
    IF n = 0 THEN << >>
    ELSE IF n \in present THEN Append(PathsOf(present, n - 1), AllPaths[n])
    ELSE PathsOf(present, n - 1)

\* the variables of run_static_analysis.py, which get_files_to_check.py leaves alone
main_vars == << output_to_console, REPO_NAME, files_changed_in_pr, pc, list_of_issues,
                per_issue_string, was_note, CURRENT_COMMENT_LENGTH, FILES_WITH_ISSUES,
                cppcheck, clang_tidy, full_comment_body, pr_comments, exit_status,
                printed, exception, tool_output, nread, step, exceeded,
                cppcheck_content >>

\* lines 4-10: the arguments are parsed; rglob is about to list the tree
InitFiles ==
    /\ output_to_console = TRUE
    /\ REPO_NAME = TARGET_REPO_NAME
    /\ files_changed_in_pr = NoChanges
    /\ ProcessStart
    /\ exclude \in ExcludeArgs
    /\ rglob \in {PathsOf(present, Len(AllPaths)) : present \in SUBSET (1..Len(AllPaths))}
    /\ nvisited = 0
    /\ files_printed = << >>

\* line 14: the test that lets a path be printed
ToBePrinted(p, exclude_arg) ==
    EndsWithAny(p, supported_extensions) /\ ~StartsWithAny(p, exclude_prefixes(exclude_arg))

\* lines 12-15: one iteration of the loop over the paths
VisitPath ==
    /\ nvisited < Len(rglob)
    /\ nvisited' = nvisited + 1
    /\ files_printed' = IF ToBePrinted(rglob[nvisited + 1], exclude)
                        THEN Append(files_printed, rglob[nvisited + 1])
                        ELSE files_printed
    /\ UNCHANGED << main_vars, exclude, rglob >>

NextFiles == VisitPath

SpecFiles == InitFiles /\ [][NextFiles]_vars

\* ------------------------------------------------- reading a pass's stream

\* The result of the pass that returned last.
LastReturned == IF pc = "clangtidy" THEN cppcheck ELSE clang_tidy

\* The pass named by pc's predecessor has just returned, by one of outcomes.
JustReturned(outcomes) == pc \in {"clangtidy", "parsed"} /\ step.outcome \in outcomes

\* The lines with the prefix that lie in no excluded directory, and what
\* extract_info reads from each.
PrefixedLines == {l \in ToolLines : StartsWith(l, WORK_DIR) /\ ~is_excluded_dir(l)}
LineInfo == [l \in PrefixedLines |-> extract_info(l, WORK_DIR)]

\* A line the pass folds: it has the prefix, lies in no excluded directory and, in
\* comment mode, passes the Range Filter.
NonSkipped(line) ==
    /\ line \in PrefixedLines
    /\ \/ output_to_console
       \/ is_part_of_pr_changes(LineInfo[line].file_path, LineInfo[line].file_line_start,
                                files_changed_in_pr)

IsNoteLine(line) == LineInfo[line].is_note

\* The text a folded line contributes: the raw line in console mode, its rendering
\* in comment mode.
RenderedOf(line, info) ==
    IF output_to_console THEN line
    ELSE generate_output(info.is_note, info.file_path, info.file_line_start,
                         info.file_line_end, info.issue_description).new_line

RenderedText(line) == RenderedOf(line, LineInfo[line])

\* The note groups of a stream, in stream order: an issue line opens a group, a note
\* joins the open group, and notes ahead of the first issue form a group of their own.
RECURSIVE GroupTexts(_)
JoinGroup(groups, line) ==
    IF ~NonSkipped(line) THEN groups
    ELSE IF IsNoteLine(line) /\ Len(groups) > 0
    THEN [groups EXCEPT ![Len(groups)] = @ \o RenderedText(line)]
    ELSE Append(groups, RenderedText(line))

GroupTexts(lines) ==
    IF Len(lines) = 0 THEN << >>
    ELSE JoinGroup(GroupTexts(SubSeq(lines, 1, Len(lines) - 1)), lines[Len(lines)])

\* A list without the repetitions of its earlier elements.
RECURSIVE Dedup(_)
KeepNew(kept, x) == IF \E i \in 1..Len(kept) : kept[i] = x THEN kept ELSE Append(kept, x)

Dedup(list) ==
    IF Len(list) = 0 THEN << >>
    ELSE KeepNew(Dedup(SubSeq(list, 1, Len(list) - 1)), list[Len(list)])

NoDuplicates(list) == \A i, j \in 1..Len(list) : list[i] = list[j] => i = j

IsPrefix(a, b) == Len(a) <= Len(b) /\ SubSeq(b, 1, Len(a)) = a

RECURSIVE SumLen(_)
SumLen(list) == IF Len(list) = 0 THEN 0 ELSE Len(list[1]) + SumLen(Tail(list))

\* every prefix of the list stays within the budget
PrefixesWithinBudget(list) ==
    \A k \in 0..Len(list) : SumLen(SubSeq(list, 1, k)) <= COMMENT_MAX_SIZE

\* the lines of a stream that are folded and are no notes
IssueCount(lines) ==
    Cardinality({i \in 1..Len(lines) : NonSkipped(lines[i]) /\ ~IsNoteLine(lines[i])})

\* the first folded line of the stream is a note
LeadingNote(lines) ==
    \E i \in 1..Len(lines) :
        /\ NonSkipped(lines[i]) /\ IsNoteLine(lines[i])
        /\ \A j \in 1..(i - 1) : ~NonSkipped(lines[j])

\* ------------------------------------------------------------------ claims

\* C1, as stated: in every entry list create_comment_for_output returns, for any
\* stream and any starting counter, the cumulative length of every prefix is at most
\* COMMENT_MAX_SIZE. Console mode never checks the budget and breaks it.
C1_BudgetLawAnyMode ==
    PrefixesWithinBudget(cppcheck.entries) /\ PrefixesWithinBudget(clang_tidy.entries)

\* C1, amended: in comment mode the cumulative length of every prefix of a returned
\* entry list is at most COMMENT_MAX_SIZE, and once the budget check has failed no
\* further entry is finalized: the running pass holds none and the clang-tidy pass
\* that follows a budget-exceeded cppcheck pass returns none.
C1_BudgetLaw ==
    ~output_to_console =>
        /\ PrefixesWithinBudget(cppcheck.entries)
        /\ PrefixesWithinBudget(clang_tidy.entries)
        /\ PrefixesWithinBudget(FlushPending(per_issue_string, list_of_issues))
        /\ exceeded # {} => list_of_issues = << >> /\ per_issue_string = ""
        /\ "cppcheck" \in exceeded => clang_tidy.entries = << >>

\* C1 witness: a comment-mode run whose cppcheck pass finalized an entry before its
\* budget check failed and whose clang-tidy pass was then refused its first line.
C1_Witness ==
    /\ ~output_to_console
    /\ exceeded = {"cppcheck", "clangtidy"}
    /\ Len(cppcheck.entries) >= 1
    /\ clang_tidy.issues_found = 0

\* C2, as stated: every note group of the stream is finalized as exactly one entry,
\* so the returned list is the list of the groups' texts. A group whose text repeats
\* an earlier entry adds none, and a failed budget check drops the groups from the
\* pending one on.
C2_EveryGroupOneEntry ==
    JustReturned({"end", "budget"}) => LastReturned.entries = GroupTexts(tool_output)

\* C2, amended: when the pass reaches the end of its stream (no budget check failed),
\* the returned list is the list of the note groups' texts in stream order, each the
\* concatenation of its lines' rendered text, without the groups whose text repeats
\* an earlier one; no entry boundary falls inside a note group.
C2_NoteGrouping ==
    JustReturned({"end"}) => LastReturned.entries = Dedup(GroupTexts(tool_output))

\* C2 witness: the comment-mode stream [issue, note, note, issue] has returned two
\* entries, the first the concatenation of the first three lines' renderings.
C2_Witness ==
    /\ JustReturned({"end"})
    /\ ~output_to_console
    /\ tool_output = << "/w/a.cc:1:1: error: E1\n", "/w/a.cc:1:2: note: N1\n",
                        "/w/a.cc:1:2: note: N1\n", "/w/a.cc:3:1: error: E2\n" >>
    /\ Len(LastReturned.entries) = 2
    /\ LastReturned.entries[1] =
           RenderedText(tool_output[1]) \o "note: N1\n" \o "note: N1\n"
    /\ LastReturned.entries[2] = RenderedText(tool_output[4])

\* C3: no returned entry list (and no running list) holds two entries with equal
\* text, the flushed pending entry included, and the entries stand in the order of
\* the first occurrences of their texts in the stream.
C3_Dedup ==
    /\ NoDuplicates(cppcheck.entries)
    /\ NoDuplicates(clang_tidy.entries)
    /\ NoDuplicates(list_of_issues)
    /\ JustReturned({"end", "budget"}) =>
           IsPrefix(LastReturned.entries, Dedup(GroupTexts(tool_output)))

\* C3 witness: a stream with the same issue at two positions, the second one the
\* pending entry at the end of the stream, has returned it once.
C3_Witness ==
    /\ JustReturned({"end"})
    /\ Len(tool_output) = 3
    /\ tool_output[1] = tool_output[3]
    /\ tool_output[1] # tool_output[2]
    /\ NonSkipped(tool_output[1]) /\ ~IsNoteLine(tool_output[1])
    /\ NonSkipped(tool_output[2]) /\ ~IsNoteLine(tool_output[2])
    /\ Len(LastReturned.entries) = 2
    /\ LastReturned.entries[1] = RenderedText(tool_output[1])

\* C4, as stated: the number of entries a pass returns is at most the number of
\* folded lines of its stream that are no notes. Notes ahead of the first issue form
\* an entry of their own.
C4_CountAtMostIssueLines ==
    JustReturned({"end", "budget"}) =>
        LastReturned.issues_found <= IssueCount(tool_output)

\* C4, amended: the number of entries a pass returns is at most the number of folded
\* lines that are no notes, plus one when the first folded line is a note.
C4_CountBound ==
    JustReturned({"end", "budget"}) =>
        LastReturned.issues_found
            <= IssueCount(tool_output) + (IF LeadingNote(tool_output) THEN 1 ELSE 0)

\* C4 witness: a stream that opens with a note and holds an issue has returned one
\* entry more than it has issue lines.
C4_Witness ==
    /\ JustReturned({"end"})
    /\ LeadingNote(tool_output)
    /\ IssueCount(tool_output) >= 1
    /\ LastReturned.issues_found = IssueCount(tool_output) + 1

\* C5: in the step in which the budget check fails, in comment mode, the pass returns
\* exactly the entries finalized before the line (the pending entry is not appended),
\* the counter is set to COMMENT_MAX_SIZE and the pass is over; what a pass has
\* returned never changes afterwards.
C5_BudgetStop ==
    [][ /\ (step'.outcome = "budget" /\ nread' = nread + 1) =>
            /\ ~output_to_console
            /\ pc \in {"cppcheck", "clangtidy"} /\ pc' # pc
            /\ (IF pc = "cppcheck" THEN cppcheck' ELSE clang_tidy')
                   = Returned(list_of_issues)
            /\ CURRENT_COMMENT_LENGTH' = COMMENT_MAX_SIZE
            /\ pc \in exceeded'
        /\ cppcheck.issues_found # -1 => cppcheck' = cppcheck
        /\ clang_tidy.issues_found # -1 => clang_tidy' = clang_tidy
      ]_vars

\* C5 witness: a budget check has failed with an entry finalized and a different
\* entry pending, and only the finalized one was returned.
C5_Witness ==
    /\ JustReturned({"budget"})
    /\ Len(tool_output) = 3
    /\ LastReturned.entries = << RenderedText(tool_output[1]) >>
    /\ RenderedText(tool_output[2]) # RenderedText(tool_output[1])
    /\ CURRENT_COMMENT_LENGTH = COMMENT_MAX_SIZE

\* C6: when the source file of an issue cannot be opened during the rendering of an
\* excerpt, the warning is printed and the run goes on: no exception ends the process.
\* The code prints the warning (line 80) and then reads the cache entry it did not
\* create (line 82).
C6_MissingSourceFileNonFatal ==
    (\E i \in 1..Len(printed) : StartsWith(printed[i], "Error: The file '"))
        => exception = ""

\* the number of places of s where sub occurs
CountOf(s, sub) ==
    Cardinality({i \in 1..(Len(s) - Len(sub) + 1) : SubSeq(s, i, i + Len(sub) - 1) = sub})

\* the last iteration rendered the issue of step.line for another repository
CrossRepoIssueRendered ==
    /\ ~output_to_console
    /\ REPO_NAME # TARGET_REPO_NAME
    /\ step.outcome \in {"append", "budget", "raise"}
    /\ ~LineInfo[step.line].is_note
    /\ LineInfo[step.line].file_path \in DOMAIN FileSystem

\* C7: for every issue of another repository, whatever lineStart and the computed
\* lineEnd >= lineStart, generate_output returns a block whose fenced excerpt shows
\* the source line at lineStart with the marker appended to it, and the marker occurs
\* nowhere else. With lineEnd = lineStart the slice of line 82 is empty and line 90
\* raises IndexError.
C7_CrossRepoExcerpt ==
    CrossRepoIssueRendered =>
        /\ step.outcome # "raise"
        /\ Contains(step.new_line,
                    "^^^cpp\n"
                    \o DropLast(FileSystem[LineInfo[step.line].file_path]
                                          [LineInfo[step.line].file_line_start])
                    \o " <---- HERE\n")
        /\ CountOf(step.new_line, " <---- HERE\n") = 1

\* the body prepare_comment_body returned is at hand
BodyPrepared == pc = "body"

ZeroIssues == cppcheck.issues_found = 0 /\ clang_tidy.issues_found = 0

\* C8, as stated: whenever both counts are zero, also after a budget-exceeded pass
\* that finalized nothing, the body is exactly the "no issues" banner.
C8_ZeroCaseOnlyBanner ==
    (BodyPrepared /\ ZeroIssues) => full_comment_body = NoIssuesBanner

\* C8, amended: whenever both counts are zero the body is exactly the "no issues"
\* banner if no pass was budget-exceeded, and the banner followed by the truncation
\* notice if one was.
C8_ZeroCase ==
    (BodyPrepared /\ ZeroIssues) =>
        full_comment_body = (IF exceeded = {} THEN NoIssuesBanner
                             ELSE NoIssuesBanner \o TruncationNotice)

\* C8 witness: both passes read lines, none was finalized and no budget check failed;
\* the body is the banner.
C8_Witness ==
    /\ BodyPrepared /\ ZeroIssues
    /\ exceeded = {}
    /\ nread >= 2
    /\ full_comment_body = NoIssuesBanner

\* C9: if the budget check of either pass failed, the body ends with the truncation
\* notice, which follows the sections.
C9_TruncationNotice ==
    (BodyPrepared /\ exceeded # {}) =>
        /\ EndsWith(full_comment_body, TruncationNotice)
        /\ full_comment_body =
               CommentSections(cppcheck.comment, clang_tidy.comment,
                               cppcheck.issues_found, clang_tidy.issues_found)
               \o TruncationNotice

\* C9 witness: only the second pass was budget-exceeded, the first returned an entry.
C9_Witness ==
    /\ BodyPrepared
    /\ exceeded = {"clangtidy"}
    /\ cppcheck.issues_found >= 1
    /\ EndsWith(full_comment_body, TruncationNotice)

\* the section of a tool is in the body
HasSection(tool) == Contains(full_comment_body, ":red_circle: " \o tool \o " found ")

\* the section of a tool carries the label of n issues
HasLabel(tool, n) ==
    Contains(full_comment_body,
             ":red_circle: " \o tool \o " found " \o ToString(n)
             \o (IF n = 1 THEN " issue!" ELSE " issues!"))

\* C10: when the total count is not zero, the body holds one collapsible section for
\* each tool whose count is > 0 and none for a tool whose count is 0, and a section's
\* label reads "1 issue" for a count of 1 and "N issues" for a count N > 1.
C10_Sections ==
    (BodyPrepared /\ ~ZeroIssues) =>
        /\ HasSection("cppcheck") <=> cppcheck.issues_found > 0
        /\ HasSection("clang-tidy") <=> clang_tidy.issues_found > 0
        /\ cppcheck.issues_found > 0 => HasLabel("cppcheck", cppcheck.issues_found)
        /\ clang_tidy.issues_found > 0 => HasLabel("clang-tidy", clang_tidy.issues_found)
        /\ CountOf(full_comment_body, "<details>")
               = (IF cppcheck.issues_found > 0 THEN 1 ELSE 0)
                 + (IF clang_tidy.issues_found > 0 THEN 1 ELSE 0)

\* C10 witness: one tool found two issues, the other one.
C10_Witness ==
    /\ BodyPrepared
    /\ cppcheck.issues_found = 2
    /\ clang_tidy.issues_found = 1
    /\ HasLabel("cppcheck", 2)
    /\ HasLabel("clang-tidy", 1)

\* the comments of the pull request that the automation identity wrote and that
\* hold the title
ToolComments ==
    {i \in 1..Len(pr_comments) :
        pr_comments[i].login = BOT_LOGIN /\ Contains(pr_comments[i].body, COMMENT_TITLE)}

\* the invocation has handed its body to the transport
Posted == pc = "posted" \/ (pc = "exit" /\ ~output_to_console /\ exception = "")

C11_AtMostOne ==
    /\ Cardinality(ToolComments) <= 1
    /\ Posted => \E i \in ToolComments : pr_comments[i].body = full_comment_body

C11_Step ==
    (pc = "body" /\ pc' = "posted") =>
        IF ToolComments = {}
        THEN pr_comments' = Append(pr_comments, [login |-> BOT_LOGIN,
                                                 body |-> full_comment_body])
        ELSE /\ Len(pr_comments') = Len(pr_comments)
             /\ \A i \in 1..Len(pr_comments) :
                    pr_comments'[i] = IF i \in ToolComments
                                      THEN [login |-> BOT_LOGIN, body |-> full_comment_body]
                                      ELSE pr_comments[i]

\* C11: create_or_edit_comment creates a comment only if no comment of the automation
\* identity holds the title, and otherwise edits that comment and creates none; over
\* the successive comment-mode invocations on a pull request there is at most one
\* comment of the automation identity holding the title, and once an invocation has
\* called the transport that comment's body is the invocation's body.
C11_CreateOrEdit == []C11_AtMostOne /\ [][C11_Step]_vars

\* C11 witness: a later invocation has edited the comment an earlier one created (the
\* other workflow's comment was posted after it), and the body is not the banner.
C11_Witness ==
    /\ pc = "posted"
    /\ Len(pr_comments) = 2
    /\ ToolComments = {1}
    /\ pr_comments[2] \in OtherComments
    /\ pr_comments[1].body = full_comment_body
    /\ ~ZeroIssues

\* C12: the exit status the invoking environment observes is 0 if and only if the sum
\* of the counts of the two passes is 0. The platform keeps the low bits of the sum,
\* so a sum of 2^StatusBits is observed as 0.
C12_ExitStatusZeroIffClean ==
    (pc = "exit" /\ exception = "") =>
        (exit_status = 0 <=> cppcheck.issues_found + clang_tidy.issues_found = 0)

\* Both passes of a comment-mode invocation have returned, the mapping of changed
\* files is not empty, and what the two passes read is what they read of one stream:
\* a pass that reached the end read all of it, a pass whose budget check failed read
\* it up to the failing line.
SameStreamTwice ==
    /\ pc = "parsed"
    /\ ~output_to_console
    /\ files_changed_in_pr = PrChanges
    /\ IF step.outcome = "end"
       THEN IF "cppcheck" \in exceeded THEN IsPrefix(cppcheck_content, tool_output)
                                       ELSE cppcheck_content = tool_output
       ELSE IF "cppcheck" \in exceeded
            THEN IsPrefix(cppcheck_content, tool_output)
                 \/ IsPrefix(tool_output, cppcheck_content)
            ELSE IsPrefix(tool_output, cppcheck_content)

RECURSIVE RawGroupTexts(_)
JoinRawGroup(groups, line) ==
    IF line \notin PrefixedLines THEN groups
    ELSE IF IsNoteLine(line) /\ Len(groups) > 0
    THEN [groups EXCEPT ![Len(groups)] = @ \o line]
    ELSE Append(groups, line)

RawGroupTexts(lines) ==
    IF Len(lines) = 0 THEN << >>
    ELSE JoinRawGroup(RawGroupTexts(SubSeq(lines, 1, Len(lines) - 1)), lines[Len(lines)])

\* C14: in console mode, whatever the mapping of changed files, every line with the
\* prefix and outside the excluded directories is folded with its raw text and every
\* other line is skipped; no budget check fails; the returned entries are the note
\* groups of the folded lines, without the repetitions of earlier entries.
C14_ConsoleMode ==
    output_to_console =>
        /\ step.outcome \in {"start", "end", "console", "skip"}
        /\ step.outcome = "console" <=> step.line \in PrefixedLines
        /\ step.outcome = "console" => step.new_line = step.line
        /\ JustReturned({"end"}) =>
               LastReturned.entries = Dedup(RawGroupTexts(tool_output))

\* C14 witness: with a mapping of changed files that does not hold line 4 of a.cc,
\* console mode returned [issue + note, the issue at line 4] for the stream
\* [issue, note, issue at line 4, issue at line 4].
C14_Witness ==
    /\ output_to_console
    /\ files_changed_in_pr = PrChanges
    /\ JustReturned({"end"})
    /\ Len(tool_output) = 4
    /\ tool_output[3] \in PrefixedLines
    /\ ~is_part_of_pr_changes(LineInfo[tool_output[3]].file_path,
                              LineInfo[tool_output[3]].file_line_start, PrChanges)
    /\ tool_output[4] = tool_output[3]
    /\ LastReturned.entries =
           << "/w/a.cc:1:1: error: E1\n" \o "/w/a.cc:1:2: note: N1\n", tool_output[3] >>

\* the positions before k of the lines of a stream that have the prefix, lie in no
\* excluded directory and are no notes
IssuesBefore(lines, k) ==
    {i \in 1..(k - 1) : lines[i] \in PrefixedLines /\ ~IsNoteLine(lines[i])}

\* the last iteration folded a note into a pending entry that an issue started
NoteJoinedIssueEntry ==
    /\ step.outcome \in {"append", "console"}
    /\ IsNoteLine(step.line)
    /\ \E i \in IssuesBefore(tool_output, Len(tool_output)) : NonSkipped(tool_output[i])

\* C15: a note folded into an entry annotates the issue that started the entry: the
\* nearest line before the note that has the prefix, lies in no excluded directory and
\* is no note, is the issue line the entry starts with. The Range Filter is applied to
\* the note's own position, so the note of a skipped issue joins the entry of the
\* issue before it.
C15_NoteAnnotatesEntryIssue ==
    NoteJoinedIssueEntry =>
        \A i \in IssuesBefore(tool_output, Len(tool_output)) :
            (\A j \in IssuesBefore(tool_output, Len(tool_output)) : j <= i) =>
                /\ NonSkipped(tool_output[i])
                /\ StartsWith(per_issue_string, RenderedText(tool_output[i]))

\* C16: the body handed to the transport, with its title, section wrappers, joining
\* newlines, divider and truncation notice, is never longer than COMMENT_MAX_SIZE.
\* The budget check of line 180 counts the rendered lines only.
C16_BodyWithinBudget ==
    BodyPrepared => Len(full_comment_body) <= COMMENT_MAX_SIZE

\* C17: an iteration over a line that does not start with the prefix, lies in an
\* excluded directory or, in comment mode, fails the Range Filter, leaves the pending
\* entry, the list of finalized entries, the note flag and the character counter as
\* they were, and the pass goes on.
C17_SkipFrame ==
    [][ (nread' = nread + 1 /\ ~NonSkipped(step'.line)) =>
            /\ per_issue_string' = per_issue_string
            /\ list_of_issues' = list_of_issues
            /\ was_note' = was_note
            /\ CURRENT_COMMENT_LENGTH' = CURRENT_COMMENT_LENGTH
            /\ pc' = pc
            /\ step'.outcome = "skip"
      ]_vars

\* C17 witness: a line that fails the Range Filter was skipped while an entry was
\* finalized, another was pending and the counter was positive.
C17_Witness ==
    /\ step.outcome = "skip"
    /\ step.line \in PrefixedLines
    /\ files_changed_in_pr = PrChanges
    /\ Len(list_of_issues) = 1
    /\ per_issue_string # ""
    /\ CURRENT_COMMENT_LENGTH > 0

\* C18: over every step of the two passes of an invocation the character counter
\* never decreases, and it never exceeds COMMENT_MAX_SIZE.
C18_CounterMonotone ==
    /\ [](0 <= CURRENT_COMMENT_LENGTH /\ CURRENT_COMMENT_LENGTH <= COMMENT_MAX_SIZE)
    /\ [][CURRENT_COMMENT_LENGTH' >= CURRENT_COMMENT_LENGTH]_vars

\* C18 witness: the counter grew over three accepted lines of the cppcheck pass and
\* was set to COMMENT_MAX_SIZE by a failed check of the clang-tidy pass.
C18_Witness ==
    /\ pc = "parsed"
    /\ exceeded = {"clangtidy"}
    /\ Len(cppcheck_content) = 3
    /\ cppcheck.issues_found = 2
    /\ CURRENT_COMMENT_LENGTH = COMMENT_MAX_SIZE

\* C19: the transport is not called before both passes have returned and the body is
\* prepared, and never in console mode; a comment-mode invocation that has ended has
\* called it, with its body; an invocation that has ended has handed the total count
\* to sys.exit. An exception of generate_output ends the invocation within a pass.
C19_TransportOrder ==
    /\ pc \in {"cppcheck", "clangtidy", "parsed", "body"} => pr_comments = << >>
    /\ output_to_console => pr_comments = << >>
    /\ (pc = "exit" /\ ~output_to_console) =>
           /\ cppcheck.issues_found >= 0 /\ clang_tidy.issues_found >= 0
           /\ \E i \in 1..Len(pr_comments) :
                  /\ pr_comments[i].login = BOT_LOGIN
                  /\ pr_comments[i].body = full_comment_body
    /\ pc = "exit" =>
           exit_status = ExitStatus(cppcheck.issues_found + clang_tidy.issues_found)

\* the paths of a listing that hold a supported extension and start with neither the
\* -exclude prefix, when one is given, nor <dir>/build
ExpectedFiles(paths, exclude_arg) ==
    SelectSeq(paths,
              LAMBDA p : /\ EndsWithAny(p, supported_extensions)
                         /\ ~(exclude_arg # "" /\ StartsWith(p, exclude_arg))
                         /\ ~StartsWith(p, directory \o "/build"))

\* C20: get_files_to_check prints exactly the resolved paths under -dir that end with
\* a supported extension and start with neither the -exclude prefix nor <dir>/build;
\* with -exclude omitted every supported file outside <dir>/build is printed. Every
\* string starts with the default "" of -exclude, so line 14 prints nothing then.
C20_PrintsSupportedFiles ==
    nvisited = Len(rglob) => files_printed = ExpectedFiles(rglob, exclude)
====
